---- MODULE Spec2Model ----
(***************************************************************************)
(* A model of release_bazel.py: the script that walks the Bazel release    *)
(* manager through cutting a new Bazel prebuilt for AOSP.                  *)
(*                                                                         *)
(* One behaviour is one run of main().  The command line, the marker file  *)
(* and the directory of checked-in Bazel binaries are fixed by Init; the   *)
(* operator's input lines and the exit statuses of the external commands   *)
(* are chosen when the run gets to them.  Every blocking call (input(),    *)
(* subprocess.run) is split into the step that issues it and the step      *)
(* that receives its result.                                               *)
(*                                                                         *)
(* Environment taken as given: PATH is set (os.environ["PATH"], line 227), *)
(* and input() always yields a line (no end-of-file, no interrupt).        *)
(***************************************************************************)
EXTENDS Integers, Sequences, FiniteSets, TLC

VARIABLES
    argv,         \* the command line: which options are present
    marker,       \* UPDATE_SCRIPT_PATH is a regular file below the cwd
    bazel_files,  \* the files of prebuilts/bazel/linux-x86_64
    pc,           \* the statement of the run that is next
    args,         \* the Namespace returned by parser.parse_args()
    dry_run,      \* the global dry_run
    log_dir,      \* the global log_dir
    scratch,      \* the files and directories created below log_dir
    mkdtemps,     \* how many times tempfile.mkdtemp() was called
    curr_commit,  \* the local curr_commit of ensure_commit_is_new
    steps,        \* the steps of the release flow entered so far, in order
    spawned,      \* the external commands spawned so far, in order
    returncodes,  \* the exit statuses of the commands that ended, in order
    output,       \* what was printed so far, in order
    rejected,     \* how many input lines prompt() has rejected
    inputs,       \* the lines input() has returned so far, in order
    exit_status   \* the exit status of the process, "running" until it ends

vars == <<argv, marker, bazel_files, pc, args, dry_run, log_dir, scratch,
          mkdtemps, curr_commit, steps, spawned, output, rejected,
          inputs, returncodes, exit_status>>

----------------------------------------------------------------------------
(* Bounds and the sets the inputs are drawn from.                          *)

\* prompt() loops without bound; the model lets it reject this many lines.
MaxRejected == 2

\* The commit hashes that occur on the command line and in file names.
Commits == {"c1", "c2"}

\* The lines the operator may type at a prompt.
Responses == {"y", "n", "Y", "yes", ""}

\* The exit statuses an external command may end with.
ReturnCodes == {0, 1, 128}

\* The directory names tempfile.mkdtemp() may hand out.
TmpNames == {"/tmp/tmpA", "/tmp/tmpB"}

\* The value None of Python, and the printed form of the booleans.
None == "None"

\* A present option: --x, --no-x, or not given.
OptionForms == {"absent", "yes", "no"}

----------------------------------------------------------------------------
(* Constants of the script.                                                *)

UPDATE_SCRIPT_PATH == "prebuilts/bazel/common/update.sh"

AFFECTED_PROJECT_DIRECTORIES ==
    <<"prebuilts/bazel/common", "prebuilts/bazel/linux-x86_64",
      "prebuilts/bazel/darwin-x86_64">>

MIXED_DROID_PATH == "build/bazel/ci/mixed_droid.sh"

\* A file name of the scanned directory, cut at the two places where the
\* glob and the regular expression cut it: <<before, version, after>>.
BazelPrefix == "prebuilts/bazel/linux-x86_64/bazel_nojdk-"

BazelSuffix == "-linux-x86_64"

CandidateFiles ==
    { <<BazelPrefix, c, BazelSuffix>> : c \in Commits }
    \cup { <<"prebuilts/bazel/linux-x86_64/bazel-", "c1", BazelSuffix>>,
           <<BazelPrefix, "c2", "-darwin-x86_64">> }

----------------------------------------------------------------------------
(* Helpers.                                                                *)

\* Python's truth value of an option parsed with BooleanOptionalAction:
\* None and False are false.
Truthy(v) == v = "True"

\* What BooleanOptionalAction stores for --x / --no-x / nothing.
ParseFlag(form) ==
    CASE form = "yes" -> "True"
      [] form = "no" -> "False"
      [] OTHER -> None

\* A printed line: what it says and the path it names (<<>> if none).
Msg(text) == [text |-> text, path |-> <<>>]

MsgPath(text, path) == [text |-> text, path |-> path]

\* print_step_header(description)
print_step_header(description) == <<Msg(""), Msg(description)>>

\* AbortStatus with sys.exit(0) in place of sys.exit(1).
AbortStatus_Zero == "0"

\* The status every sys.exit(1) of the script passes.
AbortStatus == "1"

\* The status argparse ends the process with on a usage error.
UsageStatus == "2"

\* GlobMatches with the pattern cut short: "bazel_nojdk-*".
GlobMatches_PrefixOnly(files) == { f \in files : f[1] = BazelPrefix }

\* glob.glob("prebuilts/bazel/linux-x86_64/bazel_nojdk-*-linux-x86_64")
GlobMatches(files) ==
    { f \in files : f[1] = BazelPrefix /\ f[3] = BazelSuffix }

\* match_group.group(1) of the regular expression over the one file found
ExtractCommit(f) == f[2]

\* IsSameCommit with the equality test lost.
IsSameCommit_Never(target_commit, curr) == FALSE

\* target_commit == curr_commit
IsSameCommit(target_commit, curr) == target_commit = curr

\* PromptResult with both return statements lost: the loop never ends.
PromptResult_NeverReturns(response) == "again"

\* PromptResult with the line lower-cased before it is compared.
PromptResult_IgnoreCase(response) ==
    CASE response \in {"y", "Y"} -> "True"
      [] response \in {"n", "N"} -> "False"
      [] OTHER -> "again"

\* prompt(): what one input line does: return True, return False, or loop.
PromptResult(response) ==
    CASE response = "y" -> "True"
      [] response = "n" -> "False"
      [] OTHER -> "again"

\* UpdateExecutes with the dry-run test lost.
UpdateExecutes_Always == TRUE

\* "if not dry_run" of run_update
UpdateExecutes == ~Truthy(dry_run)

\* VerifyExecutes with the dry-run test lost.
VerifyExecutes_Always == TRUE

\* "if not dry_run" of verify_update
VerifyExecutes == ~Truthy(dry_run)

\* CommitRequired with required=False.
CommitRequired_No == FALSE

\* required=True of the --commit argument
CommitRequired == TRUE

\* MainEntry with the arguments parsed before the workspace is checked.
MainEntry_ParseFirst == "parse_args"

\* The first statement of main().
MainEntry == "verify_run_from_top"

\* MainNext with run_update called before ensure_projects_clean.
MainNext_UpdateFirst(cur, ns) ==
    CASE cur = "verify_run_from_top" -> "parse_args"
      [] cur = "parse_args" ->
            IF ~Truthy(ns.verify_only) THEN "target_update_commit"
                                       ELSE "verify_update"
      [] cur = "target_update_commit" ->
            IF ~Truthy(ns.force) THEN "ensure_commit_is_new"
                                 ELSE "run_update"
      [] cur = "ensure_commit_is_new" -> "run_update"
      [] cur = "run_update" -> "ensure_projects_clean"
      [] cur = "ensure_projects_clean" -> "verify_update"
      [] cur = "verify_update" -> "create_commits"
      [] cur = "create_commits" -> "print_done"

\* MainNext with the test of args.verify_only lost.
MainNext_IgnoreVerifyOnly(cur, ns) ==
    CASE cur = "verify_run_from_top" -> "parse_args"
      [] cur = "parse_args" -> "target_update_commit"
      [] cur = "target_update_commit" ->
            IF ~Truthy(ns.force) THEN "ensure_commit_is_new"
                                 ELSE "ensure_projects_clean"
      [] cur = "ensure_commit_is_new" -> "ensure_projects_clean"
      [] cur = "ensure_projects_clean" -> "run_update"
      [] cur = "run_update" -> "verify_update"
      [] cur = "verify_update" -> "create_commits"
      [] cur = "create_commits" -> "print_done"

\* MainNext with the test of args.force lost.
MainNext_IgnoreForce(cur, ns) ==
    CASE cur = "verify_run_from_top" -> "parse_args"
      [] cur = "parse_args" ->
            IF ~Truthy(ns.verify_only) THEN "target_update_commit"
                                       ELSE "verify_update"
      [] cur = "target_update_commit" -> "ensure_commit_is_new"
      [] cur = "ensure_commit_is_new" -> "ensure_projects_clean"
      [] cur = "ensure_projects_clean" -> "run_update"
      [] cur = "run_update" -> "verify_update"
      [] cur = "verify_update" -> "create_commits"
      [] cur = "create_commits" -> "print_done"

\* The statement of main() that follows statement cur when cur returns,
\* ns being the parsed Namespace.
MainNext(cur, ns) ==
    CASE cur = "verify_run_from_top" -> "parse_args"
      [] cur = "parse_args" ->
            IF ~Truthy(ns.verify_only) THEN "target_update_commit"
                                       ELSE "verify_update"
      [] cur = "target_update_commit" ->
            IF ~Truthy(ns.force) THEN "ensure_commit_is_new"
                                 ELSE "ensure_projects_clean"
      [] cur = "ensure_commit_is_new" -> "ensure_projects_clean"
      [] cur = "ensure_projects_clean" -> "run_update"
      [] cur = "run_update" -> "verify_update"
      [] cur = "verify_update" -> "create_commits"
      [] cur = "create_commits" -> "print_done"

\* EnsureProjectsCleanNext with the sys.exit(1) lost.
EnsureProjectsCleanNext_NoExit(is_new_input) ==
    MainNext("ensure_projects_clean", args)

\* EnsureProjectsCleanNext with the "not" of the test lost.
EnsureProjectsCleanNext_Inverted(is_new_input) ==
    IF is_new_input THEN "exited"
                    ELSE MainNext("ensure_projects_clean", args)

\* Where ensure_projects_clean goes with the operator's answer.
EnsureProjectsCleanNext(is_new_input) ==
    IF ~is_new_input THEN "exited"
                     ELSE MainNext("ensure_projects_clean", args)

\* Where create_commits goes with the operator's answer.
CreateCommitsNext(commits_created) ==
    IF ~commits_created THEN "exited"
                        ELSE MainNext("create_commits", args)

\* The exit status after a step that may have ended the process.
StatusAt(next) == IF next = "exited" THEN AbortStatus ELSE exit_status

\* LogDirAfter with the test "if log_dir is None" lost.
LogDirAfter_AlwaysNew(d) == d

\* The global log_dir after "if log_dir is None: log_dir = mkdtemp()",
\* d being the name mkdtemp() would hand out.
LogDirAfter(d) == IF log_dir = None THEN d ELSE log_dir

\* temp_file_path(filename): the path returned
temp_file_path(filename, d) == <<LogDirAfter(d), filename>>

\* temp_dir_path(dirname): the path returned
temp_dir_path(dirname, d) == <<LogDirAfter(d), dirname>>

\* The effect of temp_file_path / temp_dir_path on the globals and on disk.
TempPathEffect(path, kind, d) ==
    /\ log_dir' = LogDirAfter(d)
    /\ mkdtemps' = IF log_dir = None THEN mkdtemps + 1 ELSE mkdtemps
    /\ scratch' = scratch \cup {[path |-> path, kind |-> kind]}

\* What update.sh may leave in prebuilts/bazel/linux-x86_64: on success the
\* binary of the commit; on failure the directory as it was, or the old
\* and the new binary side by side.
UpdateEffect(files, commit, rc) ==
    IF rc = 0
      THEN { (files \ GlobMatches(files))
                \cup {<<BazelPrefix, commit, BazelSuffix>>} }
      ELSE { files, files \cup {<<BazelPrefix, commit, BazelSuffix>>} }

----------------------------------------------------------------------------
(* The initial state: the process has started, main() has not run.         *)

NoArgs == [commit |-> None, force |-> None, verify_only |-> None,
           dry_run |-> None]

Init ==
    /\ argv \in [commit : {"absent"} \cup Commits,
                 force : OptionForms,
                 verify_only : OptionForms,
                 dry_run : OptionForms,
                 help : BOOLEAN]
    /\ marker \in BOOLEAN
    /\ bazel_files \in SUBSET CandidateFiles
    /\ pc = MainEntry
    /\ args = NoArgs
    /\ dry_run = "unset"
    /\ log_dir = None
    /\ scratch = {}
    /\ mkdtemps = 0
    /\ curr_commit = None
    /\ steps = <<>>
    /\ spawned = <<>>
    /\ returncodes = <<>>
    /\ output = <<>>
    /\ rejected = 0
    /\ inputs = <<>>
    /\ exit_status = "running"

----------------------------------------------------------------------------
(* The steps of one run.                                                   *)

\* verify_run_from_top(): the first statement of main().
verify_run_from_top ==
    /\ pc = "verify_run_from_top"
    /\ steps' = Append(steps, "VerifyWorkspace")
    /\ IF ~marker
         THEN /\ output' = Append(output,
                      MsgPath("not found. Are you running from the source root?",
                              <<UPDATE_SCRIPT_PATH>>))
              /\ pc' = "exited"
              /\ exit_status' = AbortStatus
         ELSE /\ output' = output
              /\ pc' = MainNext("verify_run_from_top", args)
              /\ exit_status' = exit_status
    /\ UNCHANGED <<returncodes, inputs, argv, marker, bazel_files, args, dry_run, log_dir, scratch,
                   mkdtemps, curr_commit, spawned, rejected>>

\* parser.parse_args() and "dry_run = args.dry_run".  argparse prints the
\* help and ends the process with status 0 on --help, and prints a usage
\* error and ends it with status 2 when a required argument is missing.
parse_args ==
    /\ pc = "parse_args"
    /\ IF argv.help
         THEN /\ output' = Append(output, Msg("usage: (help)"))
              /\ pc' = "exited"
              /\ exit_status' = "0"
              /\ UNCHANGED <<args, dry_run>>
         ELSE IF CommitRequired /\ argv.commit = "absent"
           THEN /\ output' = Append(output,
                      Msg("error: the following arguments are required: --commit"))
                /\ pc' = "exited"
                /\ exit_status' = UsageStatus
                /\ UNCHANGED <<args, dry_run>>
           ELSE /\ args' = [commit |-> IF argv.commit = "absent"
                                         THEN None ELSE argv.commit,
                            force |-> ParseFlag(argv.force),
                            verify_only |-> ParseFlag(argv.verify_only),
                            dry_run |-> ParseFlag(argv.dry_run)]
                /\ dry_run' = args'.dry_run
                /\ output' = output
                /\ pc' = MainNext("parse_args", args')
                /\ exit_status' = exit_status
    /\ UNCHANGED <<returncodes, inputs, argv, marker, bazel_files, log_dir, scratch, mkdtemps,
                   curr_commit, steps, spawned, rejected>>

\* commit = target_update_commit(args): the uncaught exception ends the
\* process with a traceback and status 1.
target_update_commit ==
    /\ pc = "target_update_commit"
    /\ IF args.commit = None
         THEN /\ output' = Append(output,
                      Msg("Exception: Must specify a value for --commit"))
              /\ pc' = "exited"
              /\ exit_status' = "1"
         ELSE /\ output' = output
              /\ pc' = MainNext("target_update_commit", args)
              /\ exit_status' = exit_status
    /\ UNCHANGED <<returncodes, inputs, argv, marker, bazel_files, args, dry_run, log_dir, scratch,
                   mkdtemps, curr_commit, steps, spawned, rejected>>

\* curr_commit = current_bazel_commit(): the first statement of
\* ensure_commit_is_new.
current_bazel_commit ==
    /\ pc = "ensure_commit_is_new"
    /\ steps' = Append(steps, "ResolveVersion")
    /\ LET current_bazel_files == GlobMatches(bazel_files) IN
         IF Cardinality(current_bazel_files) < 1
           THEN /\ output' = Append(output,
                        Msg("could not find an existing bazel"))
                /\ pc' = "exited"
                /\ exit_status' = AbortStatus
                /\ curr_commit' = curr_commit
           ELSE IF Cardinality(current_bazel_files) > 1
             THEN /\ output' = Append(output,
                          Msg("found multiple bazel binaries"))
                  /\ pc' = "exited"
                  /\ exit_status' = AbortStatus
                  /\ curr_commit' = curr_commit
             ELSE /\ curr_commit' =
                        ExtractCommit(CHOOSE f \in current_bazel_files : TRUE)
                  /\ output' = output
                  /\ pc' = "is_new_check"
                  /\ exit_status' = exit_status
    /\ UNCHANGED <<returncodes, inputs, argv, marker, bazel_files, args, dry_run, log_dir, scratch,
                   mkdtemps, spawned, rejected>>

\* The command line of the clone.
CloneCmd == <<"git", "clone", "https://github.com/bazelbuild/bazel.git">>

\* AncestryCmd with the two commits in the wrong order.
AncestryCmd_Swapped(curr, target_commit) ==
    <<"git", "merge-base", "--is-ancestor", target_commit, curr>>

\* The command line of the ancestry query: is curr an ancestor of
\* target_commit?
AncestryCmd(curr, target_commit) ==
    <<"git", "merge-base", "--is-ancestor", curr, target_commit>>

\* ensure_commit_is_new with the clone directory made before the equality
\* test.
ensure_commit_is_new_DirFirst ==
    /\ pc = "is_new_check"
    /\ steps' = Append(steps, "CheckAncestry")
    /\ IF IsSameCommit(args.commit, curr_commit)
         THEN /\ output' = Append(output,
                      Msg("Requested commit matches current Bazel binary version."))
              /\ pc' = "exited"
              /\ exit_status' = AbortStatus
              /\ \E d \in TmpNames :
                    /\ d = LogDirAfter(d)
                    /\ TempPathEffect(temp_dir_path("bazelsrc", d), "dir", d)
              /\ UNCHANGED spawned
         ELSE \E d \in TmpNames :
              LET clone_dir == temp_dir_path("bazelsrc", d) IN
              /\ d = LogDirAfter(d)
              /\ TempPathEffect(clone_dir, "dir", d)
              /\ output' = Append(output, MsgPath("Cloning Bazel into", clone_dir))
              /\ spawned' = Append(spawned,
                     [cmd |-> CloneCmd, cwd |-> clone_dir])
              /\ pc' = "git_clone"
              /\ exit_status' = exit_status
    /\ UNCHANGED <<returncodes, inputs, argv, marker, bazel_files, args, dry_run, curr_commit,
                   rejected>>

\* ensure_commit_is_new from the equality test to the spawn of git clone.
ensure_commit_is_new ==
    /\ pc = "is_new_check"
    /\ steps' = Append(steps, "CheckAncestry")
    /\ IF IsSameCommit(args.commit, curr_commit)
         THEN /\ output' = Append(output,
                      Msg("Requested commit matches current Bazel binary version."))
              /\ pc' = "exited"
              /\ exit_status' = AbortStatus
              /\ UNCHANGED <<log_dir, scratch, mkdtemps, spawned>>
         ELSE \E d \in TmpNames :
              LET clone_dir == temp_dir_path("bazelsrc", d) IN
              /\ d = LogDirAfter(d)
              /\ TempPathEffect(clone_dir, "dir", d)
              /\ output' = Append(output, MsgPath("Cloning Bazel into", clone_dir))
              /\ spawned' = Append(spawned,
                     [cmd |-> CloneCmd, cwd |-> clone_dir])
              /\ pc' = "git_clone"
              /\ exit_status' = exit_status
    /\ UNCHANGED <<returncodes, inputs, argv, marker, bazel_files, args, dry_run, curr_commit,
                   rejected>>

\* git clone ends; on success git merge-base --is-ancestor is spawned.
git_clone_exit ==
    /\ pc = "git_clone"
    /\ \E returncode \in ReturnCodes :
         IF returncode /= 0
           THEN /\ returncodes' = Append(returncodes, returncode)
                /\ output' = Append(output, Msg("Clone failed."))
                /\ pc' = "exited"
                /\ exit_status' = AbortStatus
                /\ UNCHANGED <<scratch, spawned>>
           ELSE LET bazel_src_dir == <<log_dir, "bazelsrc", "bazel">> IN
                /\ returncodes' = Append(returncodes, returncode)
                /\ scratch' = scratch \cup
                       {[path |-> bazel_src_dir, kind |-> "dir"]}
                /\ spawned' = Append(spawned,
                       [cmd |-> AncestryCmd(curr_commit, args.commit),
                        cwd |-> bazel_src_dir])
                /\ output' = output
                /\ pc' = "git_merge_base"
                /\ exit_status' = exit_status
    /\ UNCHANGED <<inputs, argv, marker, bazel_files, args, dry_run, log_dir, mkdtemps,
                   curr_commit, steps, rejected>>

\* git merge-base --is-ancestor ends.
git_merge_base_exit ==
    /\ pc = "git_merge_base"
    /\ \E returncode \in ReturnCodes :
         IF returncode /= 0
           THEN /\ returncodes' = Append(returncodes, returncode)
                /\ output' = Append(output,
                        Msg("Requested commit is not a descendant of current Bazel binary commit"))
                /\ pc' = "exited"
                /\ exit_status' = AbortStatus
           ELSE /\ returncodes' = Append(returncodes, returncode)
                /\ output' = output
                /\ pc' = MainNext("ensure_commit_is_new", args)
                /\ exit_status' = exit_status
    /\ UNCHANGED <<inputs, argv, marker, bazel_files, args, dry_run, log_dir, scratch,
                   mkdtemps, curr_commit, steps, spawned, rejected>>

\* ensure_projects_clean up to its call of prompt().
ensure_projects_clean ==
    /\ pc = "ensure_projects_clean"
    /\ steps' = Append(steps, "ConfirmCleanWorkspace")
    /\ output' = output \o
           print_step_header("Manual step: Clear and sync all local projects.")
    /\ pc' = "ensure_projects_clean_prompt"
    /\ UNCHANGED <<returncodes, inputs, argv, marker, bazel_files, args, dry_run, log_dir, scratch,
                   mkdtemps, curr_commit, spawned, rejected, exit_status>>

\* One turn of the loop of prompt() for ensure_projects_clean, and what
\* ensure_projects_clean does with the answer.
ensure_projects_clean_prompt ==
    /\ pc = "ensure_projects_clean_prompt"
    /\ \E response \in Responses :
         LET asked == Append(output, Msg("Are all relevant local projects clean and synced? (y/n): "))
             result == PromptResult(response) IN
         IF result = "again"
           THEN /\ rejected < MaxRejected
                /\ inputs' = Append(inputs, response)
                /\ rejected' = rejected + 1
                /\ output' = Append(asked,
                       MsgPath("invalid, please specify y or n.", <<response>>))
                /\ pc' = pc
                /\ exit_status' = exit_status
           ELSE /\ rejected' = rejected
                /\ inputs' = Append(inputs, response)
                /\ pc' = EnsureProjectsCleanNext(result = "True")
                /\ exit_status' = StatusAt(pc')
                /\ output' = IF result = "True"
                    THEN Append(asked, Msg(""))
                    ELSE Append(asked, Msg("")) \o
                         <<Msg("Please ready your local projects before continuing")>>
    /\ UNCHANGED <<argv, marker, bazel_files, args, dry_run, log_dir, scratch,
                   mkdtemps, curr_commit, steps, spawned, returncodes>>

\* What run_update prints after the update: the closing lines 207-210.
UpdatedLines ==
    <<Msg("Updated prebuilts successfully."),
      Msg("Note this may have changed the following directories:")>>
    \o [i \in 1..Len(AFFECTED_PROJECT_DIRECTORIES) |->
            Msg(AFFECTED_PROJECT_DIRECTORIES[i])]

\* The command line of run_update: ./update.sh <commit>
UpdateCmd(commit) == <<"./update.sh", commit>>

\* run_update up to the spawn of the update script, or all of it in a dry
\* run.
run_update ==
    /\ pc = "run_update"
    /\ steps' = Append(steps, "RunUpdate")
    /\ LET described == output \o print_step_header("Updating prebuilts...")
               \o <<MsgPath("Runnning update script",
                            UpdateCmd(args.commit))>> IN
       IF UpdateExecutes
         THEN \E d \in TmpNames :
              LET logfile_path == temp_file_path("update.log", d) IN
              /\ d = LogDirAfter(d)
              /\ TempPathEffect(logfile_path, "file", d)
              /\ output' = Append(described,
                               MsgPath("Streaming results to", logfile_path))
              /\ spawned' = Append(spawned,
                     [cmd |-> UpdateCmd(args.commit),
                      cwd |-> <<"prebuilts/bazel/common">>])
              /\ pc' = "update_script"
         ELSE /\ output' = described \o UpdatedLines
              /\ pc' = MainNext("run_update", args)
              /\ UNCHANGED <<log_dir, scratch, mkdtemps, spawned>>
    /\ UNCHANGED <<returncodes, inputs, argv, marker, bazel_files, args, dry_run, curr_commit,
                   rejected, exit_status>>

\* The update script ends.
update_script_exit ==
    /\ pc = "update_script"
    /\ \E returncode \in ReturnCodes :
         /\ returncodes' = Append(returncodes, returncode)
         /\ bazel_files' \in UpdateEffect(bazel_files, args.commit, returncode)
         /\ IF returncode /= 0
              THEN /\ output' = Append(output,
                         MsgPath("Update failed. Check for failure info.",
                                 <<log_dir, "update.log">>))
                   /\ pc' = "exited"
                   /\ exit_status' = AbortStatus
              ELSE /\ output' = output \o UpdatedLines
                   /\ pc' = MainNext("run_update", args)
                   /\ exit_status' = exit_status
    /\ UNCHANGED <<inputs, argv, marker, args, dry_run, log_dir, scratch, mkdtemps,
                   curr_commit, steps, spawned, rejected>>

\* The command line of verify_update, with its environment.
VerifyCmd ==
    <<"TARGET_BUILD_VARIANT=userdebug", "TARGET_PRODUCT=aosp_arm64",
      "PATH=$PATH", MIXED_DROID_PATH>>

\* verify_update up to the spawn of the verification build, or all of it
\* in a dry run.
verify_update ==
    /\ pc = "verify_update"
    /\ steps' = Append(steps, "RunVerification")
    /\ LET described == output \o print_step_header("Verifying the update...")
               \o <<MsgPath("Running", VerifyCmd)>> IN
       IF VerifyExecutes
         THEN \E d \in TmpNames :
              LET logfile_path == temp_file_path("verify.log", d) IN
              /\ d = LogDirAfter(d)
              /\ TempPathEffect(logfile_path, "file", d)
              /\ output' = Append(described,
                               MsgPath("Streaming results to", logfile_path))
              /\ spawned' = Append(spawned,
                     [cmd |-> VerifyCmd, cwd |-> <<".">>])
              /\ pc' = "mixed_droid"
         ELSE /\ output' = Append(described,
                               Msg("Dry run: Verification skipped"))
              /\ pc' = MainNext("verify_update", args)
              /\ UNCHANGED <<log_dir, scratch, mkdtemps, spawned>>
    /\ UNCHANGED <<returncodes, inputs, argv, marker, bazel_files, args, dry_run, curr_commit,
                   rejected, exit_status>>

\* VerifyUpdateNext with "== 1" in place of "!= 0".
VerifyUpdateNext_OnlyOne(returncode) ==
    IF returncode = 1 THEN "exited" ELSE MainNext("verify_update", args)

\* VerifyUpdateNext with the sys.exit(1) lost.
VerifyUpdateNext_NoExit(returncode) == MainNext("verify_update", args)

\* Where verify_update goes with the exit status of the build.
VerifyUpdateNext(returncode) ==
    IF returncode /= 0 THEN "exited" ELSE MainNext("verify_update", args)

\* mixed_droid_exit with the scratch workspace removed when the build
\* failed.
mixed_droid_exit_Cleanup ==
    /\ pc = "mixed_droid"
    /\ \E returncode \in ReturnCodes :
         /\ returncodes' = Append(returncodes, returncode)
         /\ pc' = VerifyUpdateNext(returncode)
         /\ exit_status' = StatusAt(pc')
         /\ output' = IF returncode /= 0
              THEN output \o
                   <<MsgPath("Verification failed. Check for failure info.",
                             <<log_dir, "verify.log">>),
                     Msg("Please remedy all issues until verification runs successfully.")>>
              ELSE Append(output, Msg("Verification successful."))
         /\ scratch' = IF returncode /= 0 THEN {} ELSE scratch
    /\ UNCHANGED <<inputs, argv, marker, bazel_files, args, dry_run, log_dir,
                   mkdtemps, curr_commit, steps, spawned, rejected>>

\* The verification build ends.
mixed_droid_exit ==
    /\ pc = "mixed_droid"
    /\ \E returncode \in ReturnCodes :
         /\ returncodes' = Append(returncodes, returncode)
         /\ pc' = VerifyUpdateNext(returncode)
         /\ exit_status' = StatusAt(pc')
         /\ output' = IF returncode /= 0
              THEN output \o
                   <<MsgPath("Verification failed. Check for failure info.",
                             <<log_dir, "verify.log">>),
                     Msg("Please remedy all issues until verification runs successfully.")>>
              ELSE Append(output, Msg("Verification successful."))
    /\ UNCHANGED <<inputs, argv, marker, bazel_files, args, dry_run, log_dir, scratch,
                   mkdtemps, curr_commit, steps, spawned, rejected>>

\* create_commits up to its call of prompt().
create_commits ==
    /\ pc = "create_commits"
    /\ steps' = Append(steps, "ConfirmCommitsCreated")
    /\ output' = output \o print_step_header(
           "Manual step: Create CLs for all projects that need to be updated.")
    /\ pc' = "create_commits_prompt"
    /\ UNCHANGED <<returncodes, inputs, argv, marker, bazel_files, args, dry_run, log_dir, scratch,
                   mkdtemps, curr_commit, spawned, rejected, exit_status>>

\* One turn of the loop of prompt() for create_commits, and what
\* create_commits does with the answer.
create_commits_prompt ==
    /\ pc = "create_commits_prompt"
    /\ \E response \in Responses :
         LET asked == Append(output, Msg("Have you created CLs for all projects that need to be updated? (y/n): "))
             result == PromptResult(response) IN
         IF result = "again"
           THEN /\ rejected < MaxRejected
                /\ inputs' = Append(inputs, response)
                /\ rejected' = rejected + 1
                /\ output' = Append(asked,
                       MsgPath("invalid, please specify y or n.", <<response>>))
                /\ pc' = pc
                /\ exit_status' = exit_status
           ELSE /\ rejected' = rejected
                /\ inputs' = Append(inputs, response)
                /\ pc' = CreateCommitsNext(result = "True")
                /\ exit_status' = StatusAt(pc')
                /\ output' = IF result = "True"
                    THEN Append(asked, Msg(""))
                    ELSE Append(asked, Msg("")) \o
                         <<Msg("Create CLs for all projects.")>>
    /\ UNCHANGED <<argv, marker, bazel_files, args, dry_run, log_dir, scratch,
                   mkdtemps, curr_commit, steps, spawned, returncodes>>

\* The last statement of main(): the completion message; the process then
\* ends with status 0.
print_done ==
    /\ pc = "print_done"
    /\ steps' = Append(steps, "Done")
    /\ output' = Append(output, Msg("Bazel release CLs created."))
    /\ pc' = "exited"
    /\ exit_status' = "0"
    /\ UNCHANGED <<returncodes, inputs, argv, marker, bazel_files, args, dry_run, log_dir, scratch,
                   mkdtemps, curr_commit, spawned, rejected>>

Next ==
    \/ verify_run_from_top
    \/ parse_args
    \/ target_update_commit
    \/ current_bazel_commit
    \/ ensure_commit_is_new
    \/ git_clone_exit
    \/ git_merge_base_exit
    \/ ensure_projects_clean
    \/ ensure_projects_clean_prompt
    \/ run_update
    \/ update_script_exit
    \/ verify_update
    \/ mixed_droid_exit
    \/ create_commits
    \/ create_commits_prompt
    \/ print_done

Spec == Init /\ [][Next]_vars

\* The steps the script takes by itself, without waiting for anybody.
ProgramStep ==
    \/ verify_run_from_top
    \/ parse_args
    \/ target_update_commit
    \/ current_bazel_commit
    \/ ensure_commit_is_new
    \/ ensure_projects_clean
    \/ run_update
    \/ verify_update
    \/ create_commits
    \/ print_done

\* A command that subprocess.run waits for ends.
CommandExits ==
    \/ git_clone_exit
    \/ git_merge_base_exit
    \/ update_script_exit
    \/ mixed_droid_exit

\* The operator types a line that prompt() accepts.
OperatorAnswers ==
    /\ ensure_projects_clean_prompt \/ create_commits_prompt
    /\ pc' /= pc

\* The run under the assumptions that the script keeps running, that every
\* spawned command ends, and that the operator ends up answering each
\* prompt with an accepted line.
FairSpec ==
    /\ Spec
    /\ WF_vars(ProgramStep)
    /\ WF_vars(CommandExits)
    /\ WF_vars(OperatorAnswers)

----------------------------------------------------------------------------
(* Vocabulary of the properties.                                           *)

\* The order of the steps of the release flow.
StepOrder ==
    <<"VerifyWorkspace", "ResolveVersion", "CheckAncestry",
      "ConfirmCleanWorkspace", "RunUpdate", "RunVerification",
      "ConfirmCommitsCreated", "Done">>

Rank(step) == CHOOSE i \in DOMAIN StepOrder : StepOrder[i] = step

Has(step) == \E i \in DOMAIN steps : steps[i] = step

Printed(text) == \E i \in DOMAIN output : output[i].text = text

Ran(program) == \E i \in DOMAIN spawned : spawned[i].cmd[1] = program

RanBuild == \E i \in DOMAIN spawned : spawned[i].cmd = VerifyCmd

Given(option) == argv[option] = "yes"

\* The file of the scanned directory that carries the commit.
BinaryOf(commit) == <<BazelPrefix, commit, BazelSuffix>>

\* The diagnostics printed right before a sys.exit(1).
AbortTexts ==
    { "not found. Are you running from the source root?",
      "could not find an existing bazel",
      "found multiple bazel binaries",
      "Requested commit matches current Bazel binary version.",
      "Clone failed.",
      "Requested commit is not a descendant of current Bazel binary commit",
      "Please ready your local projects before continuing",
      "Update failed. Check for failure info.",
      "Verification failed. Check for failure info.",
      "Create CLs for all projects." }

Aborted == \E i \in DOMAIN output : output[i].text \in AbortTexts

----------------------------------------------------------------------------
(* C1: whatever the flags, the answers and the exit statuses, the steps a  *)
(* run has entered are strictly increasing in the fixed order              *)
(* VerifyWorkspace, ResolveVersion, CheckAncestry, ConfirmCleanWorkspace,  *)
(* RunUpdate, RunVerification, ConfirmCommitsCreated, Done: no step comes  *)
(* after a later one and none is entered twice.                            *)
C1_StepsInFixedOrder ==
    \A i, j \in DOMAIN steps : i < j => Rank(steps[i]) < Rank(steps[j])

\* A run that skipped nothing and reached Done.
C1_Witness == steps = StepOrder

(* C2: with --verify-only, whatever --force and --dry-run are, the version *)
(* resolver, the ancestry checker, the clean-workspace confirmation and    *)
(* the update step are never entered, none of their commands is spawned,   *)
(* and the step after the workspace check is the verification.             *)
C2_VerifyOnlySkipsToVerification ==
    Given("verify_only") =>
        /\ ~Has("ResolveVersion") /\ ~Has("CheckAncestry")
        /\ ~Has("ConfirmCleanWorkspace") /\ ~Has("RunUpdate")
        /\ ~Ran("git") /\ ~Ran("./update.sh")
        /\ curr_commit = None
        /\ Len(steps) >= 1 => steps[1] = "VerifyWorkspace"
        /\ Len(steps) >= 2 => steps[2] = "RunVerification"

\* A verify-only run that has entered the verification.
C2_Witness ==
    /\ Given("verify_only")
    /\ Len(steps) >= 2
    /\ Cardinality(GlobMatches(bazel_files)) /= 1

(* C3 as stated: with --force and without --verify-only the version        *)
(* resolver is invoked (so the clean-workspace confirmation is only        *)
(* reached with the current version resolved) and the ancestry checker is  *)
(* not.                                                                    *)
C3_Original ==
    (Given("force") /\ ~Given("verify_only")) =>
        /\ Has("ConfirmCleanWorkspace") => Has("ResolveVersion")
        /\ ~Has("CheckAncestry") /\ ~Ran("git")

(* C3, amended: with --force and without --verify-only neither the version *)
(* resolver nor the ancestry checker is invoked: the directory is not      *)
(* scanned, no current version is resolved, a missing or ambiguous version *)
(* file does not abort the run, and no clone and no ancestry query is      *)
(* spawned.                                                                *)
C3_ForceSkipsResolverAndAncestry ==
    (Given("force") /\ ~Given("verify_only")) =>
        /\ ~Has("ResolveVersion") /\ ~Has("CheckAncestry")
        /\ curr_commit = None
        /\ ~Printed("could not find an existing bazel")
        /\ ~Printed("found multiple bazel binaries")
        /\ ~Ran("git")

\* A forced run over a directory without exactly one Bazel binary that
\* has got to the clean-workspace confirmation.
C3_Witness ==
    /\ Given("force") /\ ~Given("verify_only")
    /\ pc = "ensure_projects_clean_prompt"
    /\ Cardinality(GlobMatches(bazel_files)) /= 1

(* C4 as stated: a forced run whose target commit is the current version   *)
(* is aborted before ConfirmCleanWorkspace and RunUpdate.                  *)
C4_Original ==
    (/\ Given("force") /\ ~Given("verify_only")
     /\ ~Has("RunUpdate")
     /\ GlobMatches(bazel_files) = {BinaryOf(argv.commit)})
        => ~Has("ConfirmCleanWorkspace")

(* C4, amended: the force flag bypasses the equality short-circuit         *)
(* together with the ancestry check: a forced run never prints the         *)
(* equal-commit diagnostic and is never aborted before                     *)
(* ConfirmCleanWorkspace once its arguments are parsed; only in a run      *)
(* without --force does a target commit equal to the current version       *)
(* abort the run before the clone, ConfirmCleanWorkspace and RunUpdate.    *)
C4_ForceBypassesEqualityToo ==
    /\ (Given("force") /\ ~Given("verify_only")) =>
          /\ ~Printed("Requested commit matches current Bazel binary version.")
          /\ (pc = "exited" /\ args /= NoArgs)
                => Has("ConfirmCleanWorkspace")
    /\ (curr_commit /= None /\ curr_commit = args.commit) =>
          /\ ~Given("force")
          /\ ~Has("ConfirmCleanWorkspace") /\ ~Has("RunUpdate")
          /\ spawned = <<>>
          /\ Has("CheckAncestry") =>
                (pc = "exited" /\ exit_status = "1")

\* A forced run whose target is the one checked-in binary, at the
\* clean-workspace confirmation.
C4_Witness ==
    /\ Given("force") /\ ~Given("verify_only")
    /\ GlobMatches(bazel_files) = {BinaryOf(argv.commit)}
    /\ pc = "ensure_projects_clean_prompt"

(* C5 as stated: with --dry-run no external command is ever executed.      *)
C5_Original == Given("dry_run") => spawned = <<>>

(* C5, amended: with --dry-run the update script and the verification      *)
(* build are never executed, only described, whatever --force and          *)
(* --verify-only are; the clone and the ancestry query of the ancestry     *)
(* checker are executed all the same, in the runs that have neither        *)
(* --verify-only nor --force.                                              *)
C5_DryRunSparesUpdateAndBuild ==
    Given("dry_run") =>
        /\ \A i \in DOMAIN spawned : spawned[i].cmd[1] = "git"
        /\ spawned /= <<>> => (~Given("force") /\ ~Given("verify_only"))
        /\ Has("RunUpdate") => Printed("Runnning update script")
        /\ Has("RunVerification") =>
              (Printed("Running") /\ Printed("Dry run: Verification skipped"))

\* A dry run that cloned, queried the ancestry and described the build.
C5_Witness ==
    /\ Given("dry_run")
    /\ Len(spawned) = 2
    /\ Has("RunVerification")

FatalEndsWithOne ==
    /\ \A i \in DOMAIN output :
          output[i].text \in AbortTexts =>
              (pc = "exited" /\ exit_status = "1")
    /\ ~marker /\ steps /= <<>> => exit_status = "1"
    /\ exit_status = "1" => Aborted
    /\ Has("Done") => exit_status = "0"

(* C7 as stated: a run ends with status 0 only by reaching Done, and with  *)
(* status 1 on each fatal condition.                                       *)
C7_Original ==
    /\ exit_status = "0" => Has("Done")
    /\ FatalEndsWithOne

(* C7, amended: a run ends with status 0 only by reaching Done or by       *)
(* printing the help that --help asks for at argument parsing, and ends    *)
(* with status 1 on each fatal condition: missing marker file, absent or   *)
(* ambiguous current-version file, target equal to current, clone          *)
(* failure, non-ancestor result, a declined confirmation, and a nonzero    *)
(* status of the update or verification command.                           *)
C7_ExitStatus ==
    /\ exit_status = "0" =>
          \/ Has("Done")
          \/ argv.help /\ steps = <<"VerifyWorkspace">> /\ spawned = <<>>
    /\ FatalEndsWithOne

\* A run ended by a failed verification build.
C7_Witness ==
    /\ exit_status = "1"
    /\ Printed("Verification failed. Check for failure info.")

(* C8: once a step has aborted, nothing more happens in the run: no step   *)
(* is entered or retried, no prompt is shown, no command is spawned, no    *)
(* message is printed and no state changes.                                *)
C8_AbortTerminates == [][Aborted => UNCHANGED vars]_vars

\* A run aborted by a declined clean-workspace confirmation.
C8_Witness ==
    /\ Printed("Please ready your local projects before continuing")
    /\ pc = "exited"

(* C9 as stated: without --commit, a request with --verify-only is         *)
(* accepted and proceeds to RunVerification, and a request without         *)
(* --verify-only is rejected before any further step.                      *)
C9_Original ==
    (argv.commit = "absent" /\ marker /\ ~argv.help
        /\ pc \notin {"verify_run_from_top", "parse_args"}) =>
        IF Given("verify_only")
          THEN pc = "verify_update" \/ Has("RunVerification")
          ELSE pc = "exited" /\ steps = <<"VerifyWorkspace">>

(* C9, amended: the target commit is always required: a request without    *)
(* --commit (and without --help) is rejected by argument parsing with      *)
(* status 2, with --verify-only as without it, after the workspace check   *)
(* and before version resolution, ancestry check, confirmation, update     *)
(* and verification.                                                       *)
C9_CommitAlwaysRequired ==
    argv.commit = "absent" =>
        /\ \A i \in DOMAIN steps : steps[i] = "VerifyWorkspace"
        /\ spawned = <<>> /\ scratch = {} /\ args = NoArgs
        /\ (marker /\ ~argv.help /\ pc = "exited") =>
              /\ exit_status = "2"
              /\ Printed("error: the following arguments are required: --commit")

\* A verify-only request without --commit, rejected.
C9_Witness ==
    /\ argv.commit = "absent" /\ Given("verify_only")
    /\ exit_status = "2"

(* C10: the workspace check comes before everything else: while it has     *)
(* not run, nothing is parsed, resolved, printed, prompted or spawned; it  *)
(* is the first step of every run; and when the marker file is missing     *)
(* the run ends with status 1 with no other step invoked, whatever the     *)
(* flags.                                                                  *)
C10_WorkspaceCheckFirst ==
    /\ ~Has("VerifyWorkspace") =>
          /\ steps = <<>> /\ output = <<>> /\ spawned = <<>>
          /\ args = NoArgs /\ dry_run = "unset" /\ curr_commit = None
          /\ scratch = {} /\ rejected = 0 /\ exit_status = "running"
    /\ (~marker /\ Has("VerifyWorkspace")) =>
          /\ pc = "exited" /\ exit_status = "1"
          /\ steps = <<"VerifyWorkspace">>
          /\ Len(output) = 1 /\ spawned = <<>>
          /\ args = NoArgs /\ scratch = {} /\ rejected = 0

\* A run outside the source root, with every flag given, ended.
C10_Witness ==
    /\ ~marker /\ pc = "exited"
    /\ Given("verify_only") /\ Given("force") /\ Given("dry_run")

\* The positions at which the run is inside prompt().
PromptPcs == {"ensure_projects_clean_prompt", "create_commits_prompt"}

\* The statement a prompt position returns to with the answer True.
AfterYes(at) ==
    IF at = "ensure_projects_clean_prompt" THEN "run_update" ELSE "print_done"

\* What a step taken inside prompt() does.
PromptStep ==
    pc \in PromptPcs =>
        LET response == inputs'[Len(inputs')] IN
        /\ inputs' = Append(inputs, response)
        /\ IF response = "y"
             THEN pc' = AfterYes(pc) /\ exit_status' = "running"
             ELSE IF response = "n"
               THEN pc' = "exited" /\ exit_status' = "1"
               ELSE /\ pc' = pc
                    /\ output'[Len(output')] =
                         MsgPath("invalid, please specify y or n.",
                                 <<response>>)
                    /\ UNCHANGED <<argv, marker, bazel_files, args, dry_run,
                                   log_dir, scratch, mkdtemps, curr_commit,
                                   steps, spawned, exit_status>>

(* C11: every step taken inside prompt() reads one input line; a line      *)
(* that is exactly "y" returns True (the caller goes on), a line that is   *)
(* exactly "n" returns False (the caller ends the run with status 1), and  *)
(* any other line ("Y", "yes", the empty line) leaves the run inside the   *)
(* same prompt with nothing changed but what was printed and read: so the  *)
(* first accepted line decides the result.                                 *)
C11_PromptAcceptsOnlyExactTokens == [][PromptStep]_vars

\* The clean-workspace prompt answered "y" after "Y" and "yes" were
\* rejected.
C11_Witness ==
    /\ inputs = <<"Y", "yes", "y">>
    /\ pc = "run_update"

\* The exit statuses of the commands of the given program that ended.
ResultsOf(program) ==
    { returncodes[i] : i \in { j \in DOMAIN returncodes :
                                  spawned[j].cmd[1] = program } }

\* The exit statuses of the verification build, if it ended.
BuildResults ==
    { returncodes[i] : i \in { j \in DOMAIN returncodes :
                                  spawned[j].cmd = VerifyCmd } }

(* C12: when the verification build was executed and ended with a nonzero  *)
(* status, the run has ended with status 1, the failure message names the  *)
(* verification log that was created, and neither ConfirmCommitsCreated    *)
(* nor Done was entered.                                                   *)
C12_FailedVerificationEndsRun ==
    (BuildResults \ {0} /= {}) =>
        /\ pc = "exited" /\ exit_status = "1"
        /\ \E i \in DOMAIN output :
              /\ output[i].text = "Verification failed. Check for failure info."
              /\ output[i].path = <<log_dir, "verify.log">>
              /\ [path |-> output[i].path, kind |-> "file"] \in scratch
        /\ ~Printed("Verification successful.")
        /\ ~Has("ConfirmCommitsCreated") /\ ~Has("Done")
        /\ steps[Len(steps)] = "RunVerification"

\* A verification build that ended with status 128.
C12_Witness ==
    /\ 128 \in BuildResults
    /\ ~Given("dry_run")

\* A clone directory exists in the scratch workspace.
CloneDirMade == \E f \in scratch : f.path[2] = "bazelsrc"

(* C13: when the current version equals the target, the ancestry checker   *)
(* ends the run before any clone: no command was spawned, no scratch       *)
(* workspace and no clone directory was created, and the run ended with    *)
(* status 1 on the equal-commit diagnostic; no exit status of a clone or   *)
(* an ancestry query was ever read.                                        *)
C13_EqualityAbortsBeforeClone ==
    (Has("CheckAncestry") /\ curr_commit = args.commit) =>
        /\ pc = "exited" /\ exit_status = "1"
        /\ Printed("Requested commit matches current Bazel binary version.")
        /\ spawned = <<>> /\ returncodes = <<>>
        /\ ~CloneDirMade /\ scratch = {}
        /\ log_dir = None /\ mkdtemps = 0
        /\ steps[Len(steps)] = "CheckAncestry"

\* A run whose target is the checked-in binary, ended by the equality
\* test.
C13_Witness ==
    /\ Has("CheckAncestry")
    /\ curr_commit = args.commit
    /\ pc = "exited"

\* The ancestry checker was entered and has ended, one way or the other.
AncestryEnded ==
    Has("CheckAncestry") /\ pc \notin {"git_clone", "git_merge_base"}

\* The ancestry checker returned to main().
AncestryReturned ==
    /\ AncestryEnded
    /\ pc = "ensure_projects_clean" \/ Has("ConfirmCleanWorkspace")

(* C14: the ancestry checker returns normally exactly when the current     *)
(* version differs from the target, the clone ended with status 0 and the  *)
(* query "is current an ancestor of target" ended with status 0; a failed  *)
(* clone ends the run with status 1 and no ancestry query is spawned; a    *)
(* nonzero result of the query ends the run with status 1.                 *)
C14_AncestryCheckerOutcome ==
    AncestryEnded =>
        /\ AncestryReturned <=>
              /\ curr_commit /= args.commit
              /\ Len(spawned) >= 2 /\ Len(returncodes) >= 2
              /\ spawned[1].cmd = CloneCmd /\ returncodes[1] = 0
              /\ spawned[2].cmd = <<"git", "merge-base", "--is-ancestor",
                                     curr_commit, args.commit>>
              /\ spawned[2].cwd = <<log_dir, "bazelsrc", "bazel">>
              /\ returncodes[2] = 0
        /\ (returncodes /= <<>> /\ returncodes[1] /= 0) =>
              /\ pc = "exited" /\ exit_status = "1"
              /\ Printed("Clone failed.")
              /\ Len(spawned) = 1
        /\ (Len(returncodes) >= 2 /\ returncodes[2] /= 0) =>
              /\ pc = "exited" /\ exit_status = "1"
              /\ Printed("Requested commit is not a descendant of current Bazel binary commit")
              /\ Len(spawned) = 2

\* The checker returned: clone and query both ended with status 0.
C14_Witness ==
    /\ AncestryReturned
    /\ pc = "ensure_projects_clean"

\* The update script has not ended yet: the scanned directory is as the
\* run found it.
DirectoryUntouched == ResultsOf("./update.sh") = {}

\* The files of the scanned directory named bazel_nojdk-<v>-linux-x86_64.
VersionedBinaries == { f \in bazel_files : f = BinaryOf(f[2]) }

(* C15: the version resolver ends the run with status 1 when the scanned   *)
(* directory holds no file or more than one file matching the versioned    *)
(* binary pattern, and with exactly one such file it returns the version   *)
(* token that stands between the fixed prefix and suffix of its name.      *)
C15_ResolverOutcome ==
    (Has("ResolveVersion") /\ DirectoryUntouched) =>
        IF Cardinality(VersionedBinaries) = 1
          THEN /\ BinaryOf(curr_commit) \in bazel_files
               /\ VersionedBinaries = {BinaryOf(curr_commit)}
               /\ ~Printed("could not find an existing bazel")
               /\ ~Printed("found multiple bazel binaries")
               /\ pc = "exited" => steps[Len(steps)] /= "ResolveVersion"
          ELSE /\ pc = "exited" /\ exit_status = "1"
               /\ curr_commit = None
               /\ steps[Len(steps)] = "ResolveVersion"
               /\ spawned = <<>>
               /\ IF VersionedBinaries = {}
                    THEN Printed("could not find an existing bazel")
                    ELSE Printed("found multiple bazel binaries")

\* The one versioned binary resolved among other files of the directory.
C15_Witness ==
    /\ Has("ResolveVersion")
    /\ curr_commit = "c1"
    /\ Cardinality(bazel_files) = 3

\* The paths the run has printed as log file or clone directory.
PrintedPaths ==
    { output[i].path : i \in { j \in DOMAIN output :
          output[j].text \in {"Streaming results to", "Cloning Bazel into",
                              "Update failed. Check for failure info.",
                              "Verification failed. Check for failure info."} } }

\* The scratch workspace as it stands: made at most once, made exactly
\* when the first path was asked for, and holding every path handed out.
ScratchIsOneDirectory ==
    /\ mkdtemps <= 1
    /\ (log_dir = None) <=> (mkdtemps = 0)
    /\ (log_dir = None) <=> (scratch = {})
    /\ \A f \in scratch : f.path[1] = log_dir
    /\ \A path \in PrintedPaths : path[1] = log_dir
    /\ \A i \in DOMAIN spawned :
          spawned[i].cmd[1] = "git" => spawned[i].cwd[1] = log_dir

\* What a step may do to the scratch workspace.
ScratchStep ==
    /\ log_dir /= None => log_dir' = log_dir
    /\ scratch \subseteq scratch'
    /\ ScratchIsOneDirectory'

(* C16: over all calls of temp_file_path and temp_dir_path of one run the  *)
(* scratch directory is created at most once, by the first such call and   *)
(* not before; once set, log_dir never changes; and every log file path    *)
(* and the clone directory handed out lie inside that one directory.       *)
C16_ScratchCreatedOnce == [][ScratchStep]_vars

\* A run that asked for the clone directory and for both log files.
C16_Witness ==
    /\ Cardinality({ f \in scratch : f.kind = "file" }) = 2
    /\ CloneDirMade
    /\ mkdtemps = 1

\* The lines read so far that prompt() accepted, in order.
AcceptedInputs == SelectSeq(inputs, LAMBDA line : line \in {"y", "n"})

(* C17: the update step is entered only after the clean-workspace          *)
(* confirmation was answered "y" in the same run and, when --force is not  *)
(* given, only after the ancestry checker returned normally; an answer     *)
(* "n" to the clean-workspace confirmation ends the run with status 1      *)
(* with the update step never entered and the update script never run.     *)
C17_UpdateOnlyAfterConfirmation ==
    /\ (Has("RunUpdate") \/ pc = "run_update") =>
          /\ Has("ConfirmCleanWorkspace")
          /\ AcceptedInputs /= <<>> /\ AcceptedInputs[1] = "y"
          /\ ~Given("force") =>
                /\ Has("ResolveVersion") /\ Has("CheckAncestry")
                /\ curr_commit /= args.commit
                /\ Len(returncodes) >= 2
                /\ returncodes[1] = 0 /\ returncodes[2] = 0
    /\ Ran("./update.sh") => Has("RunUpdate")
    /\ Printed("Please ready your local projects before continuing") =>
          /\ AcceptedInputs = <<"n">>
          /\ pc = "exited" /\ exit_status = "1"
          /\ ~Has("RunUpdate") /\ ~Ran("./update.sh")
          /\ DirectoryUntouched

\* An unforced run that has started the update script.
C17_Witness ==
    /\ ~Given("force")
    /\ Ran("./update.sh")
    /\ inputs = <<"", "y">>

\* What a step that ends the run after the update step does to the
\* prebuilts and the scratch workspace, and what any step does once the
\* run has ended.
AbortKeepsEffects ==
    /\ (Has("RunUpdate") /\ pc \in {"mixed_droid", "create_commits_prompt"}
            /\ pc' = "exited" /\ exit_status' = "1") =>
          UNCHANGED <<bazel_files, scratch, log_dir, mkdtemps>>
    /\ pc = "exited" =>
          UNCHANGED <<bazel_files, scratch, log_dir, mkdtemps>>

(* C18: an abort undoes nothing: when the run is ended after the update    *)
(* step completed, by a failed verification or a declined                  *)
(* commits-created confirmation, the prebuilts and the scratch workspace   *)
(* with its log files stay exactly as they were, at the abort and after    *)
(* it.                                                                     *)
C18_AbortUndoesNothing == [][AbortKeepsEffects]_vars

\* A run ended by a failed verification after the update script had put
\* the new binary in place and both logs were written.
C18_Witness ==
    /\ pc = "exited" /\ exit_status = "1"
    /\ 0 \in ResultsOf("./update.sh")
    /\ BuildResults \ {0} /= {}
    /\ GlobMatches(bazel_files) = {BinaryOf(args.commit)}
    /\ Cardinality({ f \in scratch : f.kind = "file" }) = 2

(* C19: without --dry-run a run reaches Done only if the verification      *)
(* build was executed and ended with status 0 and the commits-created      *)
(* confirmation was answered "y", and, without --verify-only, only if the  *)
(* update script too was executed and ended with status 0; with --dry-run  *)
(* Done is reached with neither the update script nor the verification     *)
(* build executed.                                                         *)
C19_DoneNeedsSuccess ==
    Has("Done") =>
        /\ exit_status = "0"
        /\ Has("RunVerification") /\ Has("ConfirmCommitsCreated")
        /\ AcceptedInputs /= <<>>
        /\ AcceptedInputs[Len(AcceptedInputs)] = "y"
        /\ ~Given("dry_run") =>
              /\ BuildResults = {0}
              /\ Printed("Verification successful.")
              /\ ~Given("verify_only") =>
                    /\ Has("RunUpdate")
                    /\ ResultsOf("./update.sh") = {0}
        /\ Given("dry_run") =>
              /\ ~Ran("./update.sh") /\ ~RanBuild
              /\ Printed("Dry run: Verification skipped")

\* A dry run through the update step that reached Done.
C19_Witness ==
    /\ Has("Done")
    /\ Given("dry_run")
    /\ Has("RunUpdate")
    /\ ~Ran("./update.sh") /\ ~RanBuild

(* C20 as stated: if the operator ends up entering an accepted line at     *)
(* every prompt and every spawned command ends, every run ends in Done or  *)
(* in an abort (a nonzero exit status).                                    *)
C20_Original ==
    <>(pc = "exited" /\ (Has("Done") \/ exit_status /= "0"))

(* C20, amended: if the operator ends up entering an accepted line at      *)
(* every prompt and every spawned command ends, every run ends: in Done,   *)
(* in an abort with a nonzero exit status, or, when --help is given, at    *)
(* argument parsing with the help printed and status 0.  So a run fails    *)
(* to end only on an endless sequence of rejected lines or on a command    *)
(* that never ends.                                                        *)
C20_RunTerminates ==
    <>(/\ pc = "exited"
       /\ \/ Has("Done") /\ exit_status = "0"
          \/ exit_status \in {"1", "2"}
          \/ argv.help /\ exit_status = "0" /\ steps = <<"VerifyWorkspace">>)

\* A run that ended in Done after four commands and a rejected line.
C20_Witness ==
    /\ pc = "exited" /\ Has("Done")
    /\ Len(returncodes) = 4
    /\ rejected >= 1

====
